---- MODULE Spec2Model ----
(***************************************************************************)
(* Model of the useProcessing hook (job-lifecycle orchestrator) of the     *)
(* Vizart frontend: frontend/src/components/ModeSelector.tsx, lines 56-184.*)
(* The hook's React state is the model's state; every callback of the hook *)
(* and every continuation of an awaited transport call is one action.      *)
(* The polling helper pollJobStatus lives in lib/api, which is not part of *)
(* the available sources; it is modelled from section 4.2 of the           *)
(* specification (fixed cadence, one request in flight, stops itself on a  *)
(* terminal snapshot or when the consecutive-failure threshold is hit).    *)
(* The useImageUpload hook (hooks/useImageUpload.ts) and the simulated     *)
(* processing of the home page (app/page.tsx) have their own              *)
(* specifications, SpecUpload and SpecPage, over the same variables.       *)
(***************************************************************************)
EXTENDS Integers, FiniteSets, Sequences, TLC

\* ---------------------------------------------------------------- bounds
MaxStarts == 2
MaxCancels == 1
\* Number of start calls in the specification with fairness (liveness checks).
MaxLiveStarts == 1
\* Number of uploadImage calls in the specification of useImageUpload.
MaxUploads == 3
\* Number of handleProcess calls in the specification of the home page.
MaxProcess == 2

\* ------------------------------------------------------------- constants
FailureThreshold == 3

NoJob == [id |-> 0, status |-> "none", progress |-> 0, message |-> "", result |-> "none"]
NoError == "null"
NullTimer == "null"

NoFile == "null"
NoPreview == "null"
Files == {"a.png", "b.png"}

\* Home: the result before any processing finished, {}.
NoResult == [imageUrl |-> "none", extractedGarments |-> "none"]
Modes == {"try-on", "try-off"}
ImageTypes == {"model", "garment"}

Kinds == {"tryOn", "tryOff"}
Statuses == {"pending", "processing", "completed", "failed"}
ProgressValues == {0, 40, 100}

\* The progress values the status endpoint reports with a status: a queued
\* job has none, a completed one all of it, a running or failed one some.
ProgressOf(st) ==
    CASE st = "pending" -> {0}
      [] st = "completed" -> {100}
      [] OTHER -> {0, 40}
JobIds == 1..MaxStarts

\* The message the backend attaches to a snapshot of a given status.
StatusMessage(st) ==
    CASE st = "pending" -> "Queued"
      [] st = "processing" -> "Processing garments..."
      [] st = "completed" -> "Done"
      [] OTHER -> "Server error"

\* ProcessingJob as returned by the status endpoint; result only when completed.
Snapshot(j, st, p) ==
    [id |-> j, status |-> st, progress |-> p, message |-> StatusMessage(st),
     result |-> IF st = "completed" THEN "r1.png" ELSE "none"]

Snapshots(j) == UNION {{Snapshot(j, st, p) : p \in ProgressOf(st)} : st \in Statuses}

\* What a rejected promise carries: an Error with a message, or a non-Error value.
Rejections == {[isError |-> TRUE, message |-> "Network error"],
               [isError |-> FALSE, message |-> ""]}

\* The three ways a resolved submit response is not a success.
SubmitFailures == {[success |-> FALSE, hasJobId |-> FALSE, error |-> "Invalid image"],
                   [success |-> TRUE, hasJobId |-> FALSE, error |-> ""]}

VARIABLES
    isProcessing,   \* useState(false)
    progress,       \* useState(0)
    message,        \* useState('')
    job,            \* useState<ProcessingJob | null>(null)
    error,          \* useState<string | null>(null)
    pollingRef,     \* useRef<NodeJS.Timeout | null>(null)
    submits,        \* submit calls in flight: call number -> kind
    pollers,        \* polling loops: job id -> [running, fails, started, settled]
    cancels,        \* cancel calls in flight: job id -> number of calls
    nStarts,        \* number of start calls made so far
    last,           \* history: the operation that produced the current state
    \* useImageUpload (hooks/useImageUpload.ts)
    image,          \* useState<File | null>(null)
    preview,        \* useState<string | null>(null)
    isUploading,    \* useState(false)
    uploadError,    \* useState<string | null>(null), the hook's `error`
    uploads,        \* createImagePreview calls in flight: call number -> file
    nUploads,       \* number of uploadImage calls made so far
    \* Home (app/page.tsx)
    mode,             \* useState<'try-on' | 'try-off'>('try-on')
    uploadedImages,   \* useState<{ model?: File, garment?: File }>({})
    processingStatus, \* useState({ isProcessing, progress, message })
    result,           \* useState<{ imageUrl?, extractedGarments? }>({})
    intervals,        \* running simulateProgress intervals: call -> [progress, ticks]
    timeouts,         \* pending completion timeouts: call number -> captured mode
    nProcess          \* number of handleProcess calls made so far

obs == <<job, progress, message, isProcessing, error>>
uvars == <<image, preview, isUploading, uploadError, uploads, nUploads>>
pvars == <<isProcessing, progress, message, job, error, pollingRef, submits,
           pollers, cancels, nStarts>>
hvars == <<mode, uploadedImages, processingStatus, result, intervals, timeouts,
           nProcess>>
vars == <<isProcessing, progress, message, job, error, pollingRef, submits,
          pollers, cancels, nStarts, last, image, preview, isUploading,
          uploadError, uploads, nUploads, mode, uploadedImages,
          processingStatus, result, intervals, timeouts, nProcess>>

NoPoller == [running |-> FALSE, fails |-> 0, started |-> FALSE, settled |-> 0]

Init ==
    /\ isProcessing = FALSE
    /\ progress = 0
    /\ message = ""
    /\ job = NoJob
    /\ error = NoError
    /\ pollingRef = NullTimer
    /\ submits = [c \in {} |-> "tryOn"]
    /\ pollers = [j \in JobIds |-> NoPoller]
    /\ cancels = [j \in JobIds |-> 0]
    /\ nStarts = 0
    /\ last = [op |-> "init", id |-> 0]
    /\ image = NoFile
    /\ preview = NoPreview
    /\ isUploading = FALSE
    /\ uploadError = NoError
    /\ uploads = [c \in {} |-> NoFile]
    /\ nUploads = 0
    /\ mode = "try-on"
    /\ uploadedImages = [model |-> NoFile, garment |-> NoFile]
    /\ processingStatus = [isProcessing |-> FALSE, progress |-> 0, message |-> ""]
    /\ result = NoResult
    /\ intervals = [k \in {} |-> [progress |-> 0, ticks |-> 0]]
    /\ timeouts = [k \in {} |-> "try-on"]
    /\ nProcess = 0

\* ------------------------------------------------------- helper functions
IsTerminal(st) == st \in {"completed", "failed"}

\* err instanceof Error ? err.message : fallback
CatchMessage(rej, fallback) == IF rej.isError THEN rej.message ELSE fallback

\* err.message || fallback
MessageOr(rej, fallback) ==
    IF rej.isError /\ rej.message # "" THEN rej.message ELSE fallback

\* response.error || fallback, thrown as an Error and caught by the same try
SubmitErrorMessage(resp, fallback) == IF resp.error # "" THEN resp.error ELSE fallback

InitMessage(kind) ==
    IF kind = "tryOn" THEN "Initializing try-on process..."
                      ELSE "Initializing garment extraction..."

SubmitFallback(kind) ==
    IF kind = "tryOn" THEN "Failed to submit try-on request"
                      ELSE "Failed to submit try-off request"

\* The timer handle after an `if (pollingRef.current) { clearInterval; = null }`.
ClearedTimer(ref) == IF ref # NullTimer THEN NullTimer ELSE ref

\* updateJobStatus with the terminal test narrowed to 'completed'.
updateJobStatusCompletedOnly(jobStatus) ==
    /\ job' = jobStatus
    /\ progress' = jobStatus.progress
    /\ message' = jobStatus.message
    /\ IF jobStatus.status = "completed"
         THEN /\ isProcessing' = FALSE
              /\ pollingRef' = ClearedTimer(pollingRef)
         ELSE UNCHANGED <<isProcessing, pollingRef>>

\* updateJobStatus(jobStatus): lines 65-77.
updateJobStatus(jobStatus) ==
    /\ job' = jobStatus
    /\ progress' = jobStatus.progress
    /\ message' = jobStatus.message
    /\ IF IsTerminal(jobStatus.status)
         THEN /\ isProcessing' = FALSE
              /\ pollingRef' = ClearedTimer(pollingRef)
         ELSE UNCHANGED <<isProcessing, pollingRef>>

RunningPollers == {j \in JobIds : pollers[j].running}
StartedJobs == {j \in JobIds : pollers[j].started}

\* ---------------------------------------------------------------- actions
\* The synchronous prefix of startTryOn / startTryOff up to the awaited submit.
Start(kind) ==
    /\ nStarts < MaxStarts
    /\ nStarts' = nStarts + 1
    /\ isProcessing' = TRUE
    /\ progress' = 0
    /\ message' = InitMessage(kind)
    /\ error' = NoError
    /\ submits' = [c \in DOMAIN submits \cup {nStarts + 1} |->
                      IF c = nStarts + 1 THEN kind ELSE submits[c]]
    /\ last' = [op |-> "start", id |-> nStarts + 1]
    /\ UNCHANGED <<job, pollingRef, pollers, cancels>>
    /\ UNCHANGED <<uvars, hvars>>

startTryOn == Start("tryOn")

startTryOff == Start("tryOff")

\* The continuation of a successful submit that keeps a timer handle in
\* pollingRef.current.
SubmitSucceedStoringTimer(c) ==
    /\ c \in DOMAIN submits
    /\ submits' = [d \in DOMAIN submits \ {c} |-> submits[d]]
    /\ pollers' = [pollers EXCEPT ![c] =
                     [running |-> TRUE, fails |-> 0, started |-> TRUE, settled |-> 0]]
    /\ pollingRef' = "timer"
    /\ last' = [op |-> "submitOk", id |-> c]
    /\ UNCHANGED <<isProcessing, progress, message, job, error, cancels, nStarts>>
    /\ UNCHANGED <<uvars, hvars>>

\* The submit call of start number c resolves with success and a job id:
\* pollJobStatus(jobId, updateJobStatus) is called, nothing else is set.
SubmitSucceed(c) ==
    /\ c \in DOMAIN submits
    /\ submits' = [d \in DOMAIN submits \ {c} |-> submits[d]]
    /\ pollers' = [pollers EXCEPT ![c] =
                     [running |-> TRUE, fails |-> 0, started |-> TRUE, settled |-> 0]]
    /\ last' = [op |-> "submitOk", id |-> c]
    /\ UNCHANGED <<isProcessing, progress, message, job, error, pollingRef,
                   cancels, nStarts>>
    /\ UNCHANGED <<uvars, hvars>>

\* The submit call resolves without success or job id: the thrown Error is caught.
SubmitRefused(c, resp) ==
    /\ c \in DOMAIN submits
    /\ submits' = [d \in DOMAIN submits \ {c} |-> submits[d]]
    /\ error' = SubmitErrorMessage(resp, SubmitFallback(submits[c]))
    /\ isProcessing' = FALSE
    /\ last' = [op |-> "submitFail", id |-> c]
    /\ UNCHANGED <<progress, message, job, pollingRef, pollers, cancels,
                   nStarts>>
    /\ UNCHANGED <<uvars, hvars>>

\* The catch block of the start with setIsProcessing(false) left out.
SubmitRejectErrorOnly(c, rej) ==
    /\ c \in DOMAIN submits
    /\ submits' = [d \in DOMAIN submits \ {c} |-> submits[d]]
    /\ error' = CatchMessage(rej, "Failed to start processing")
    /\ last' = [op |-> "submitFail", id |-> c]
    /\ UNCHANGED <<isProcessing, progress, message, job, pollingRef, pollers,
                   cancels, nStarts>>
    /\ UNCHANGED <<uvars, hvars>>

\* The submit call rejects (network error): the catch block of the start.
SubmitReject(c, rej) ==
    /\ c \in DOMAIN submits
    /\ submits' = [d \in DOMAIN submits \ {c} |-> submits[d]]
    /\ error' = CatchMessage(rej, "Failed to start processing")
    /\ isProcessing' = FALSE
    /\ last' = [op |-> "submitFail", id |-> c]
    /\ UNCHANGED <<progress, message, job, pollingRef, pollers, cancels,
                   nStarts>>
    /\ UNCHANGED <<uvars, hvars>>

\* One poll of the running loop of job j: getStatus returns snapshot s, which
\* is delivered to updateJobStatus; a terminal snapshot stops the loop and
\* resolves the promise (.then only logs).
PollSnapshot(j, s) ==
    /\ pollers[j].running
    /\ updateJobStatus(s)
    /\ pollers' = [pollers EXCEPT ![j].fails = 0,
                                  ![j].running = ~IsTerminal(s.status),
                                  ![j].settled = IF IsTerminal(s.status)
                                                   THEN @ + 1 ELSE @]
    /\ last' = [op |-> "snapshot", id |-> j, snap |-> s]
    /\ UNCHANGED <<error, submits, cancels, nStarts>>
    /\ UNCHANGED <<uvars, hvars>>

\* The .catch with setIsProcessing(false) left out.
PollCatchErrorOnly(rej) ==
    /\ error' = MessageOr(rej, "Processing failed")
    /\ UNCHANGED isProcessing

\* The .catch of the promise returned by pollJobStatus: lines 99-102, 130-133.
PollCatch(rej) ==
    /\ error' = MessageOr(rej, "Processing failed")
    /\ isProcessing' = FALSE

\* One poll of the running loop of job j fails: polling goes on until the
\* consecutive-failure threshold is reached; then the loop stops and the
\* promise rejects, which runs the .catch of the start.
PollError(j, rej) ==
    /\ pollers[j].running
    /\ IF pollers[j].fails + 1 >= FailureThreshold
         THEN /\ pollers' = [pollers EXCEPT ![j].fails = @ + 1,
                                            ![j].running = FALSE,
                                            ![j].settled = @ + 1]
              /\ PollCatch(rej)
              /\ last' = [op |-> "pollGiveUp", id |-> j]
         ELSE /\ pollers' = [pollers EXCEPT ![j].fails = @ + 1]
              /\ last' = [op |-> "pollError", id |-> j]
              /\ UNCHANGED <<error, isProcessing>>
    /\ UNCHANGED <<progress, message, job, pollingRef, submits, cancels,
                   nStarts>>
    /\ UNCHANGED <<uvars, hvars>>

\* cancelProcessing(), synchronous prefix: returns at once without a job id,
\* otherwise issues apiClient.cancelJob(job.id) and awaits it.
cancelProcessing ==
    /\ IF job = NoJob
         THEN /\ last' = [op |-> "cancelNoop", id |-> 0]
              /\ UNCHANGED cancels
         ELSE /\ cancels[job.id] < MaxCancels
              /\ cancels' = [cancels EXCEPT ![job.id] = @ + 1]
              /\ last' = [op |-> "cancel", id |-> job.id]
    /\ UNCHANGED <<isProcessing, progress, message, job, error, pollingRef,
                   submits, pollers, nStarts>>
    /\ UNCHANGED <<uvars, hvars>>

\* The awaited cancelJob resolves: lines 146-154.
CancelSucceed(j) ==
    /\ cancels[j] > 0
    /\ cancels' = [cancels EXCEPT ![j] = @ - 1]
    /\ isProcessing' = FALSE
    /\ progress' = 0
    /\ message' = ""
    /\ job' = NoJob
    /\ pollingRef' = ClearedTimer(pollingRef)
    /\ last' = [op |-> "cancelOk", id |-> j]
    /\ UNCHANGED <<error, submits, pollers, nStarts>>
    /\ UNCHANGED <<uvars, hvars>>

\* The awaited cancelJob rejects: lines 155-157.
CancelFail(j, rej) ==
    /\ cancels[j] > 0
    /\ cancels' = [cancels EXCEPT ![j] = @ - 1]
    /\ error' = CatchMessage(rej, "Failed to cancel processing")
    /\ last' = [op |-> "cancelFail", id |-> j]
    /\ UNCHANGED <<isProcessing, progress, message, job, pollingRef, submits,
                   pollers, nStarts>>
    /\ UNCHANGED <<uvars, hvars>>

\* reset(): lines 160-171.
reset ==
    /\ isProcessing' = FALSE
    /\ progress' = 0
    /\ message' = ""
    /\ job' = NoJob
    /\ error' = NoError
    /\ pollingRef' = ClearedTimer(pollingRef)
    /\ last' = [op |-> "reset", id |-> 0]
    /\ UNCHANGED <<submits, pollers, cancels, nStarts>>
    /\ UNCHANGED <<uvars, hvars>>

Next ==
    \/ startTryOn
    \/ startTryOff
    \/ \E c \in DOMAIN submits : SubmitSucceed(c)
    \/ \E c \in DOMAIN submits, resp \in SubmitFailures : SubmitRefused(c, resp)
    \/ \E c \in DOMAIN submits, rej \in Rejections : SubmitReject(c, rej)
    \/ \E j \in JobIds : \E s \in Snapshots(j) : PollSnapshot(j, s)
    \/ \E j \in JobIds, rej \in Rejections : PollError(j, rej)
    \/ cancelProcessing
    \/ \E j \in JobIds : CancelSucceed(j)
    \/ \E j \in JobIds, rej \in Rejections : CancelFail(j, rej)
    \/ reset

Spec == Init /\ [][Next]_vars

\* Every transport call eventually returns: the awaited submit, each poll of a
\* running loop, and the awaited cancel resolve or reject.
SubmitReturns(c) ==
    \/ SubmitSucceed(c)
    \/ \E resp \in SubmitFailures : SubmitRefused(c, resp)
    \/ \E rej \in Rejections : SubmitReject(c, rej)

PollReturns(j) ==
    \/ \E s \in Snapshots(j) : PollSnapshot(j, s)
    \/ \E rej \in Rejections : PollError(j, rej)

CancelReturns(j) ==
    \/ CancelSucceed(j)
    \/ \E rej \in Rejections : CancelFail(j, rej)

TransportFairness ==
    /\ \A c \in JobIds : WF_vars(SubmitReturns(c))
    /\ \A j \in JobIds : WF_vars(PollReturns(j))
    /\ \A j \in JobIds : WF_vars(CancelReturns(j))

\* The hook under the assumption that transport calls return, with the number
\* of start calls bounded by MaxLiveStarts.
StartLive(kind) == nStarts < MaxLiveStarts /\ Start(kind)

NextLive ==
    \/ StartLive("tryOn")
    \/ StartLive("tryOff")
    \/ \E c \in DOMAIN submits : SubmitSucceed(c)
    \/ \E c \in DOMAIN submits, resp \in SubmitFailures : SubmitRefused(c, resp)
    \/ \E c \in DOMAIN submits, rej \in Rejections : SubmitReject(c, rej)
    \/ \E j \in JobIds : \E s \in Snapshots(j) : PollSnapshot(j, s)
    \/ \E j \in JobIds, rej \in Rejections : PollError(j, rej)
    \/ cancelProcessing
    \/ \E j \in JobIds : CancelSucceed(j)
    \/ \E j \in JobIds, rej \in Rejections : CancelFail(j, rej)
    \/ reset

SpecLive == Init /\ [][NextLive]_vars /\ TransportFairness

\* ------------------------------------------------------- useImageUpload
\* What validateImageFile(file) returns: { isValid, error? }.
Validations == {[isValid |-> TRUE, error |-> ""],
                [isValid |-> FALSE, error |-> "File too large"],
                [isValid |-> FALSE, error |-> ""]}

\* The preview URL createImagePreview(file) resolves with.
PreviewOf(f) == "data:" \o f

\* validation.error || 'Invalid file'
ValidationMessage(v) == IF v.error # "" THEN v.error ELSE "Invalid file"

\* uploadImage(file) up to its first suspension: with an invalid file the whole
\* call (setError, return, finally) runs at once; with a valid one it stops at
\* the awaited createImagePreview(file). Lines 19-32, 38-40.
uploadImage(f, v) ==
    /\ nUploads < MaxUploads
    /\ nUploads' = nUploads + 1
    /\ IF ~v.isValid
         THEN /\ uploadError' = ValidationMessage(v)
              /\ isUploading' = FALSE
              /\ last' = [op |-> "uploadInvalid", id |-> nUploads + 1]
              /\ UNCHANGED uploads
         ELSE /\ uploadError' = NoError
              /\ isUploading' = TRUE
              /\ uploads' = [c \in DOMAIN uploads \cup {nUploads + 1} |->
                                IF c = nUploads + 1 THEN f ELSE uploads[c]]
              /\ last' = [op |-> "uploadStart", id |-> nUploads + 1]
    /\ UNCHANGED <<image, preview>>
    /\ UNCHANGED <<pvars, hvars>>

\* The continuation that stores the preview but not the file.
PreviewResolvePreviewOnly(c) ==
    /\ c \in DOMAIN uploads
    /\ uploads' = [d \in DOMAIN uploads \ {c} |-> uploads[d]]
    /\ preview' = PreviewOf(uploads[c])
    /\ isUploading' = FALSE
    /\ last' = [op |-> "uploadOk", id |-> c]
    /\ UNCHANGED <<image, uploadError, nUploads>>
    /\ UNCHANGED <<pvars, hvars>>

\* createImagePreview of call c resolves: lines 32-35, then finally.
PreviewResolve(c) ==
    /\ c \in DOMAIN uploads
    /\ uploads' = [d \in DOMAIN uploads \ {c} |-> uploads[d]]
    /\ image' = uploads[c]
    /\ preview' = PreviewOf(uploads[c])
    /\ isUploading' = FALSE
    /\ last' = [op |-> "uploadOk", id |-> c]
    /\ UNCHANGED <<uploadError, nUploads>>
    /\ UNCHANGED <<pvars, hvars>>

\* The catch block without the finally that clears isUploading.
PreviewRejectNoFinally(c, rej) ==
    /\ c \in DOMAIN uploads
    /\ uploads' = [d \in DOMAIN uploads \ {c} |-> uploads[d]]
    /\ uploadError' = CatchMessage(rej, "Upload failed")
    /\ last' = [op |-> "uploadFail", id |-> c]
    /\ UNCHANGED <<image, preview, isUploading, nUploads>>
    /\ UNCHANGED <<pvars, hvars>>

\* createImagePreview of call c rejects: catch at lines 36-37, then finally.
PreviewReject(c, rej) ==
    /\ c \in DOMAIN uploads
    /\ uploads' = [d \in DOMAIN uploads \ {c} |-> uploads[d]]
    /\ uploadError' = CatchMessage(rej, "Upload failed")
    /\ isUploading' = FALSE
    /\ last' = [op |-> "uploadFail", id |-> c]
    /\ UNCHANGED <<image, preview, nUploads>>
    /\ UNCHANGED <<pvars, hvars>>

\* clearImage(): lines 43-47.
clearImage ==
    /\ image' = NoFile
    /\ preview' = NoPreview
    /\ uploadError' = NoError
    /\ last' = [op |-> "clear", id |-> 0]
    /\ UNCHANGED <<isUploading, uploads, nUploads>>
    /\ UNCHANGED <<pvars, hvars>>

NextUpload ==
    \/ \E f \in Files, v \in Validations : uploadImage(f, v)
    \/ \E c \in DOMAIN uploads : PreviewResolve(c)
    \/ \E c \in DOMAIN uploads, rej \in Rejections : PreviewReject(c, rej)
    \/ clearImage

SpecUpload == Init /\ [][NextUpload]_vars

\* ------------------------------------------------- Home (app/page.tsx)
\* Period of the simulateProgress interval and delay of the completion
\* timeout, in milliseconds.
IntervalMs == 500
TimeoutMs == 3000

\* progress += Math.random() * 30: the steps drawn, a small and a large one.
Increments == {10, 29}
\* if (progress > 90) progress = 90
ProgressCap == 90
\* Math.floor(progress / 25)
MessageStep == 25

Messages == <<"Analyzing image...", "Detecting pose...",
              "Processing garments...", "Generating result...">>

Min(a, b) == IF a < b THEN a ELSE b

StartingStatus ==
    [isProcessing |-> TRUE, progress |-> 0, message |-> "Starting processing..."]

CompleteStatus ==
    [isProcessing |-> FALSE, progress |-> 100, message |-> "Processing complete!"]

\* The result the completion timeout stores, by the mode its closure captured.
PlaceholderResult(m) ==
    [imageUrl |-> "/api/placeholder/400/600",
     extractedGarments |-> IF m = "try-off" THEN "upper,lower" ELSE "none"]

\* The process button is rendered while nothing is processing and enabled
\* once the images the mode needs are uploaded (the tests handleProcess
\* repeats before it starts).
CanProcess ==
    /\ ~processingStatus.isProcessing
    /\ uploadedImages.model # NoFile
    /\ mode = "try-on" => uploadedImages.garment # NoFile

\* handleImageUpload(type, file): lines 32-37.
handleImageUpload(type, file) ==
    /\ uploadedImages' = [uploadedImages EXCEPT ![type] = file]
    /\ last' = [op |-> "pickImage", id |-> 0]
    /\ UNCHANGED <<mode, processingStatus, result, intervals, timeouts, nProcess>>
    /\ UNCHANGED <<pvars, uvars>>

\* onModeChange={setMode}
setMode(m) ==
    /\ mode' = m
    /\ last' = [op |-> "setMode", id |-> 0]
    /\ UNCHANGED <<uploadedImages, processingStatus, result, intervals, timeouts,
                   nProcess>>
    /\ UNCHANGED <<pvars, uvars>>

\* handleProcess(): sets the starting status, starts the progress interval
\* (simulateProgress, local progress 0) and arms the completion timeout.
handleProcess ==
    /\ nProcess < MaxProcess
    /\ CanProcess
    /\ nProcess' = nProcess + 1
    /\ processingStatus' = StartingStatus
    /\ intervals' = [k \in DOMAIN intervals \cup {nProcess + 1} |->
                        IF k = nProcess + 1 THEN [progress |-> 0, ticks |-> 0]
                                            ELSE intervals[k]]
    /\ timeouts' = [k \in DOMAIN timeouts \cup {nProcess + 1} |->
                       IF k = nProcess + 1 THEN mode ELSE timeouts[k]]
    /\ last' = [op |-> "process", id |-> nProcess + 1]
    /\ UNCHANGED <<mode, uploadedImages, result>>
    /\ UNCHANGED <<pvars, uvars>>

\* One run of the interval callback of call k, Math.random() * 30 being inc.
\* While the completion timeout of the same call is pending, the callback
\* runs at multiples of IntervalMs up to TimeoutMs; the ticks are counted
\* only that long.
IntervalTick(k, inc) ==
    /\ k \in DOMAIN intervals
    /\ k \in DOMAIN timeouts => (intervals[k].ticks + 1) * IntervalMs <= TimeoutMs
    /\ LET p == Min(intervals[k].progress + inc, ProgressCap)
           messageIndex == p \div MessageStep
           t == IF k \in DOMAIN timeouts THEN intervals[k].ticks + 1
                                         ELSE intervals[k].ticks
       IN /\ processingStatus' =
                [processingStatus EXCEPT
                    !.progress = Min(p, 100),
                    !.message = Messages[Min(messageIndex, Len(Messages) - 1) + 1]]
          /\ intervals' =
                IF p >= ProgressCap
                  THEN [j \in DOMAIN intervals \ {k} |-> intervals[j]]
                  ELSE [intervals EXCEPT ![k] = [progress |-> p, ticks |-> t]]
    /\ last' = [op |-> "tick", id |-> k]
    /\ UNCHANGED <<mode, uploadedImages, result, timeouts, nProcess>>
    /\ UNCHANGED <<pvars, uvars>>

\* The completion timeout of call k fires, TimeoutMs after the call: not
\* before the interval of the call, if still running, ran at every earlier
\* multiple of IntervalMs.
CompletionTimeout(k) ==
    /\ k \in DOMAIN timeouts
    /\ k \in DOMAIN intervals => (intervals[k].ticks + 1) * IntervalMs >= TimeoutMs
    /\ result' = PlaceholderResult(timeouts[k])
    /\ processingStatus' = CompleteStatus
    /\ timeouts' = [j \in DOMAIN timeouts \ {k} |-> timeouts[j]]
    /\ last' = [op |-> "complete", id |-> k]
    /\ UNCHANGED <<mode, uploadedImages, intervals, nProcess>>
    /\ UNCHANGED <<pvars, uvars>>

NextPage ==
    \/ \E type \in ImageTypes, file \in Files : handleImageUpload(type, file)
    \/ \E m \in Modes : setMode(m)
    \/ handleProcess
    \/ \E k \in 1..MaxProcess, inc \in Increments : IntervalTick(k, inc)
    \/ \E k \in 1..MaxProcess : CompletionTimeout(k)

SpecPage == Init /\ [][NextPage]_vars

TypeOK ==
    /\ isProcessing \in BOOLEAN
    /\ progress \in ProgressValues
    /\ job = NoJob \/ \E j \in JobIds : job \in Snapshots(j)
    /\ pollingRef = NullTimer
    /\ nStarts \in 0..MaxStarts

\* ------------------------------------------------------ claims C1 .. C10
\* The continuations of transport calls (responses), as recorded in `last`.
SubmitResponses == {"submitOk", "submitFail"}
PollResponses == {"snapshot", "pollError", "pollGiveUp"}

IdleState ==
    /\ job = NoJob
    /\ error = NoError
    /\ progress = 0
    /\ isProcessing = FALSE

\* C1: after polling for a job was stopped (reset() ran, or a cancel for the
\* job completed), a snapshot of that job delivered next changes none of
\* job, progress, message, isProcessing, error.
C1_StaleSnapshotDiscarded ==
    [][(last'.op = "snapshot"
          /\ \/ last.op = "reset"
             \/ (last.op = "cancelOk" /\ last.id = last'.id))
          => obs' = obs]_vars

\* C2: a start invoked while a job is Submitting or Active (isProcessing is
\* true) is rejected: no further submit call is issued and job, progress,
\* message, isProcessing stay as they were.
C2_StartWhileBusyRejected ==
    [][(last'.op = "start" /\ isProcessing)
          => /\ submits' = submits
             /\ <<job, progress, message, isProcessing>>'
                  = <<job, progress, message, isProcessing>>]_vars

\* C3: at most one polling loop is able to deliver snapshots into the state
\* at any time.
C3_AtMostOnePoller == Cardinality(RunningPollers) <= 1

\* C4: reset() yields Idle (no job, no error, progress 0, isProcessing false)
\* and the snapshot or submit response that follows it changes nothing.
C4_ResetIsFinal ==
    [][/\ last'.op = "reset" => IdleState'
       /\ (last.op = "reset" /\ last'.op \in SubmitResponses \cup PollResponses)
             => obs' = obs]_vars

\* C5: cancel() on an Active job (a pending or processing job is exposed and
\* isProcessing is true) has set isProcessing to false when it returns to its
\* caller, before the cancel network call has an outcome, and isProcessing is
\* false after that outcome whether it is a success or a failure.
C5_CancelForcesCancelled ==
    [][/\ (last'.op = "cancel" /\ isProcessing /\ ~IsTerminal(job.status))
             => ~isProcessing'
       /\ (last.op = "cancel" /\ last'.op \in {"cancelOk", "cancelFail"}
             /\ last'.id = last.id)
             => ~isProcessing']_vars

\* C6: cancel() invoked after a start was accepted and before the first poll
\* result was applied (isProcessing is true, no job exposed yet) leaves the
\* hook Cancelled (isProcessing false) at once.
C6_CancelBeforeFirstPoll ==
    [][(last'.op \in {"cancel", "cancelNoop"} /\ isProcessing /\ job = NoJob)
          => ~isProcessing']_vars

\* C7: while the exposed job is not terminal, applying the next snapshot of
\* the same job never lowers the exposed progress.
C7_ProgressMonotone ==
    [][(last'.op = "snapshot" /\ job # NoJob /\ job.id = last'.id
          /\ ~IsTerminal(job.status))
          => progress' >= progress]_vars

\* C8: once the job is Terminal (its completed or failed snapshot is exposed)
\* or Cancelled (its cancel call has just completed), a snapshot of that job
\* delivered next changes none of job, progress, message.
C8_NoMutationAfterTerminal ==
    [][(last'.op = "snapshot"
          /\ \/ (last.op = "cancelOk" /\ last.id = last'.id)
             \/ (job.id = last'.id /\ IsTerminal(job.status)))
          => <<job, progress, message>>' = <<job, progress, message>>]_vars

\* C9: when the submit call fails, the hook is Idle with the error attached
\* and no job: isProcessing false, error non-null, job null, no polling started
\* for that submission.
C9_SubmitFailureReturnsToIdle ==
    last.op = "submitFail"
       => /\ ~isProcessing
          /\ error # NoError
          /\ job = NoJob
          /\ ~pollers[last.id].started

\* C10: when the submit call succeeds, the job becomes Active under the
\* returned job id with status pending and progress 0, before any snapshot of
\* it is applied.
C10_SubmitSuccessCreatesPendingJob ==
    last.op = "submitOk"
       => /\ job.id = last.id
          /\ job.status = "pending"
          /\ job.progress = 0
          /\ progress = 0

\* ----------------------------------------------------- claims C11 .. C20
\* C11: when a completed or failed snapshot is applied, the hook exposes that
\* snapshot (job, progress, message, result) with isProcessing false, the
\* polling loop of the job has stopped, and its promise has settled once;
\* no loop ever settles twice.
C11_TerminalSnapshotApplied ==
    /\ \A j \in JobIds : pollers[j].settled <= 1
    /\ (last.op = "snapshot" /\ IsTerminal(last.snap.status))
          => /\ job = last.snap
             /\ progress = last.snap.progress
             /\ message = last.snap.message
             /\ isProcessing = FALSE
             /\ ~pollers[last.id].running
             /\ pollers[last.id].settled = 1

C11_Witness ==
    /\ last.op = "snapshot"
    /\ last.snap.status = "completed"
    /\ job.result = "r1.png"
    /\ progress = 100
    /\ isProcessing = FALSE
    /\ pollers[last.id].settled = 1

\* C12: a failed poll below the consecutive-failure threshold leaves the loop
\* running and the observable state (isProcessing included) as it was; the
\* failed poll that reaches the threshold stops the loop and surfaces an
\* error with isProcessing false.
C12_PollFailurePolicy ==
    [][\A j \in JobIds :
          pollers'[j].fails = pollers[j].fails + 1
             => IF pollers'[j].fails < FailureThreshold
                  THEN pollers'[j].running /\ obs' = obs
                  ELSE /\ ~pollers'[j].running
                       /\ isProcessing' = FALSE
                       /\ error' # NoError]_vars

C12_Witness ==
    /\ last.op = "pollGiveUp"
    /\ pollers[last.id].fails = FailureThreshold
    /\ ~pollers[last.id].running
    /\ isProcessing = FALSE
    /\ error = "Network error"

\* C13: assuming every transport call eventually returns, every accepted
\* start is eventually followed by a state in which isProcessing is false.
C13_EveryStartEnds == (last.op = "start") ~> (isProcessing = FALSE)

\* C13 as amended: the same, for the behaviours in which every polling loop
\* eventually stops (a terminal snapshot arrives or the retries are
\* exhausted); a job that is reported pending or processing for ever keeps
\* isProcessing true, there being no overall timeout.
C13_EveryEndingStartEnds ==
    (\A j \in JobIds : <>[](~pollers[j].running))
       => ((last.op = "start") ~> (isProcessing = FALSE))

C13_Witness ==
    /\ last.op = "pollGiveUp"
    /\ nStarts >= 1
    /\ RunningPollers = {}
    /\ DOMAIN submits = {}
    /\ isProcessing = FALSE

\* Jobs started after job j that are Submitting (submit in flight) or were
\* handed to a polling loop.
Newer(j) == {c \in JobIds : c > j /\ (c \in DOMAIN submits \/ pollers[c].started)}

\* Jobs after job j that are Submitting or Active (their loop is polling).
NewerLive(j) == {c \in JobIds : c > j /\ (c \in DOMAIN submits \/ pollers[c].running)}

\* C14: cancel() with no active job is a no-op: when no job is exposed, or the
\* exposed job is completed or failed, it issues no transport cancel call and
\* leaves job, progress, message, isProcessing, error unchanged.
C14_CancelWithoutActiveJobIsNoop ==
    [][(last'.op \in {"cancel", "cancelNoop"}
          /\ (job = NoJob \/ IsTerminal(job.status)))
          => cancels' = cancels /\ obs' = obs]_vars

\* C15: isProcessing = true never coexists with an exposed job whose status
\* is completed or failed (a new start supersedes the previous job).
C15_NoTerminalJobWhileProcessing == ~(isProcessing /\ IsTerminal(job.status))

\* C16: a snapshot of an earlier job is not applied while a newer job is
\* Submitting or Active: it changes none of job, progress, message,
\* isProcessing, error.
C16_SupersededSnapshotDropped ==
    [][(last'.op = "snapshot" /\ NewerLive(last'.id) # {}) => obs' = obs]_vars

\* C17: the completion of a cancel call issued for one job changes nothing
\* observable when it arrives right after reset() or while a later-started
\* job is Submitting or Active.
C17_LateCancelOutcomeIgnored ==
    [][(last'.op \in {"cancelOk", "cancelFail"}
          /\ (last.op = "reset" \/ NewerLive(last'.id) # {}))
          => obs' = obs]_vars

\* C18: the job id passed to the transport cancel call is that of the most
\* recently submitted job: no later job is Submitting or was started.
C18_CancelTargetsCurrentJob ==
    last.op = "cancel" => Newer(last.id) = {}

\* C19: when an uploadImage call finishes, on any path, isUploading is false;
\* when it finishes because validation or preview creation failed, error is
\* non-null, and no step of a failing call (its start, its failure) changes
\* image or preview.
C19_UploadFailureFrame ==
    [][/\ last'.op \in {"uploadInvalid", "uploadFail", "uploadOk"}
             => isUploading' = FALSE
       /\ last'.op \in {"uploadInvalid", "uploadFail"}
             => /\ uploadError' # NoError
                /\ image' = image
                /\ preview' = preview
       /\ last'.op = "uploadStart" => (image' = image /\ preview' = preview)]_vars

C19_Witness ==
    /\ last.op = "uploadFail"
    /\ image = "a.png"
    /\ preview = PreviewOf("a.png")
    /\ uploadError = "Network error"
    /\ isUploading = FALSE

\* C20: in every state reached by interleaved uploadImage and clearImage
\* calls, image and preview are both null, or both set with the preview being
\* the one created from the stored file.
C20_ImagePreviewPaired ==
    \/ (image = NoFile /\ preview = NoPreview)
    \/ (image # NoFile /\ preview = PreviewOf(image))

\* A second upload finished first, then the first one overwrote it.
C20_Witness ==
    /\ last.op = "uploadOk"
    /\ last.id = 1
    /\ nUploads = 2
    /\ DOMAIN uploads = {}
    /\ image = "a.png"
    /\ preview = PreviewOf("a.png")

\* ----------------------------------------------------- claims C21 .. C22
\* C21: on the home page, once the completion timeout has set the status to
\* isProcessing false, progress 100, 'Processing complete!', a run of the
\* progress-simulation interval changes nothing in the status, progress
\* stays 100 until the next handleProcess, and at most one simulation
\* interval is running at any time.
C21_CompletionIsFinal ==
    [][/\ (processingStatus = CompleteStatus /\ last'.op = "tick")
             => processingStatus' = processingStatus
       /\ (processingStatus = CompleteStatus /\ last'.op # "process")
             => processingStatus'.progress = 100
       /\ Cardinality(DOMAIN intervals') <= 1]_vars

\* C22: in useProcessing the timer handle pollingRef.current is null in every
\* reachable state, so the clearInterval branch of updateJobStatus,
\* cancelProcessing and reset, taken only with a non-null handle, never runs:
\* each of them would leave the handle as it finds it.
C22_PollingRefAlwaysNull ==
    /\ pollingRef = NullTimer
    /\ ClearedTimer(pollingRef) = pollingRef

\* A cancel completed while the loop of the job goes on polling: the guard of
\* the branch was evaluated with a null handle.
C22_Witness ==
    /\ last.op = "cancelOk"
    /\ pollers[last.id].running
    /\ pollingRef = NullTimer
    /\ job = NoJob

====
